---- MODULE Spec2Model ----
(***************************************************************************)
(* target-duckpond: the lifecycle of DuckPondSink (construction, setup,    *)
(* row insertion into the private working DuckDB database, clean_up) and   *)
(* the DDL translation of DuckPondConnector.create_empty_table, over a     *)
(* small filesystem: a set of directories and a map from file paths to     *)
(* the content of the database file stored there.                          *)
(***************************************************************************)
EXTENDS Integers, Sequences, FiniteSets, TLC

VARIABLES pc,            \* position of each sink in its lifecycle
          stream_name,   \* DuckPondSink.stream_name (the table name)
          schema_name,   \* DuckPondSink.schema_name ("" when there is none)
          stream_def,    \* the schema and key_properties the sink was built with
          sink_id,       \* DuckPondSink.sink_id
          dirs,          \* directories that exist under pond_root_dir
          files,         \* path -> content of the database files that exist
          touched,       \* history: paths below tmp/ each sink has accessed
          pre_dest,      \* history: the destination as it was when clean_up began
          last_insert,   \* history: the last insert each sink executed
          last_done      \* history: the sink whose clean_up returned last (0: none)

vars == <<pc, stream_name, schema_name, stream_def, sink_id, dirs, files,
          touched, pre_dest, last_insert, last_done>>

----------------------------------------------------------------------------
(* Bounds *)

NumWriters == 2

Writers == 1..NumWriters

\* The values uuid4 returns, in the order it returns them: a value is never
\* returned twice, and nothing else distinguishes one from another.
SinkIdNames == <<"u1", "u2", "u3", "u4">>

----------------------------------------------------------------------------
(* Stream schemas: the JSON schema (with or without a "properties" key) and *)
(* the key_properties handed to the sink.                                   *)

Prop(n, t) == [name |-> n, type |-> t]

NoProperties == [has_properties |-> FALSE, properties |-> <<>>, key_properties |-> {}]
EmptyProperties == [has_properties |-> TRUE, properties |-> <<>>, key_properties |-> {}]
IntegerKey ==
    [has_properties |-> TRUE,
     properties |-> <<Prop("id", "integer"), Prop("name", "string")>>,
     key_properties |-> {"id"}]
StringKey ==
    [has_properties |-> TRUE,
     properties |-> <<Prop("code", "string"), Prop("name", "string")>>,
     key_properties |-> {"code"}]

\* The streams a sink can be built for: schema_name ("" when neither the stream
\* name nor the configuration gives one), stream_name, and the schema the tap
\* announces for it, well-formed or not.
Stream(ns, s, d) == [schema_name |-> ns, stream_name |-> s, def |-> d]
StreamMessages ==
    {Stream("main", "users", IntegerKey), Stream("main", "users", NoProperties),
     Stream("", "orders", StringKey), Stream("", "users", EmptyProperties)}

PropertyNames(d) == [i \in 1..Len(d.properties) |-> d.properties[i].name]

\* Records a tap can send for a stream; a record may lack the key field.
Records(d) ==
    IF d = IntegerKey
    THEN {[id |-> 1, name |-> "a"], [id |-> 1, name |-> "b"],
          [id |-> 2, name |-> "a"], [name |-> "a"]}
    ELSE IF d = StringKey
    THEN {[code |-> "x", name |-> "a"], [name |-> "a"]}
    ELSE {}

----------------------------------------------------------------------------
(* DuckPondConnector.create_empty_table *)

\* SQLConnector.to_sql_type on the JSON schema types used here.
to_sql_type(t) == IF t = "integer" THEN "INTEGER" ELSE "VARCHAR"

\* has_pk_seq without the isinstance(sql_type, Integer) test.
has_pk_seq_any_type(p, primary_keys) == p.name \in primary_keys

\* The "SERIAL workaround" branch: a primary key whose SQL type is Integer.
has_pk_seq(p, primary_keys) ==
    p.name \in primary_keys /\ to_sql_type(p.type) = "INTEGER"

\* One sqlalchemy.Column: the sequence and its next_value() server default are
\* attached only in the workaround branch.
Column(p, primary_keys) ==
    [name |-> p.name,
     type |-> to_sql_type(p.type),
     primary_key |-> p.name \in primary_keys,
     server_default |-> IF has_pk_seq(p, primary_keys) THEN "nextval" ELSE "none"]

Columns(d) == [i \in 1..Len(d.properties) |-> Column(d.properties[i], d.key_properties)]

\* schema["properties"] raising KeyError.
missing_properties(d) == ~d.has_properties

\* The result of create_empty_table before the engine sees the DDL: the
\* RuntimeError of the except branch, or the column list given to create_all.
create_empty_table(d) ==
    IF missing_properties(d)
    THEN [raised |-> "RuntimeError", columns |-> <<>>]
    ELSE [raised |-> "none", columns |-> Columns(d)]

----------------------------------------------------------------------------
(* Paths *)

\* pathlib's mkdir(parents=True, exist_ok=True): the path and its ancestors.
Parents(p) == {SubSeq(p, 1, k) : k \in 1..Len(p)}
Dirname(p) == SubSeq(p, 1, Len(p) - 1)

\* sink_tmp_dir named after the stream instead of the sink_id.
sink_tmp_dir_by_stream(w) == <<"tmp", stream_name[w]>>

sink_tmp_dir(w) == <<"tmp", sink_id[w]>>

\* The file of the sqlalchemy_url built by new_connector.
connector_path(w) == sink_tmp_dir(w) \o <<"duckpond.db">>

sink_raw_dir(w) ==
    IF schema_name[w] # ""
    THEN <<"raw", schema_name[w], stream_name[w]>>
    ELSE <<"raw", stream_name[w]>>

\* What a reader finds in a destination directory: whether it exists and the
\* rows of the files stored in it.
DestRows(dir) ==
    UNION {files[f].rows : f \in {g \in DOMAIN files : Dirname(g) = dir}}
DestState(dir) == [exists |-> dir \in dirs, rows |-> DestRows(dir)]

----------------------------------------------------------------------------
(* DuckPondSink.generate_insert_statement *)

\* INSERT INTO <table> ("p1", ...) VALUES (:p1, ...): every property of the
\* schema is a quoted column and a bound parameter of the same name.
generate_insert_statement(d) ==
    [columns |-> [i \in 1..Len(d.properties) |->
                    [name |-> d.properties[i].name, quoted |-> TRUE]],
     params |-> PropertyNames(d)]

ParamSet(stmt) == {stmt.params[i] : i \in 1..Len(stmt.params)}

\* Executing the statement for one record on the working database. A parameter
\* the record has no value for is never left to the column's server default,
\* since the statement names every column: depending on the SDK release it is
\* bound as NULL (null_bound) or the execution fails on the unbound parameter.
\* NULL is the absence of the field from the stored row. A primary key is
\* NOT NULL and unique.
PrimaryKey(table) ==
    {table.columns[i].name : i \in
       {j \in 1..Len(table.columns) : table.columns[j].primary_key}}

KeyOf(table, row) ==
    [n \in PrimaryKey(table) |-> IF n \in DOMAIN row THEN <<row[n]>> ELSE <<>>]

execute_insert(table, stmt, r, null_bound) ==
    LET missing == ParamSet(stmt) \ DOMAIN r
        duplicate == \E old \in table.rows :
                        PrimaryKey(table) # {} /\ KeyOf(table, old) = KeyOf(table, r)
    IN  IF missing # {} /\ ~null_bound THEN "bind_error"
        ELSE IF missing \cap PrimaryKey(table) # {} THEN "not_null_error"
        ELSE IF duplicate THEN "unique_error"
        ELSE "stored"

----------------------------------------------------------------------------
(* The sink lifecycle *)

NoTable == [created |-> FALSE, columns |-> <<>>, rows |-> {}]
NoInsert == [done |-> FALSE, stored |-> FALSE, missing |-> {}]
NoDest == [exists |-> FALSE, rows |-> {}]

Constructed == {w \in Writers : pc[w] # "new"}

Init ==
    /\ pc = [w \in Writers |-> "new"]
    /\ stream_name = [w \in Writers |-> ""]
    /\ schema_name = [w \in Writers |-> ""]
    /\ stream_def = [w \in Writers |-> NoProperties]
    /\ sink_id = [w \in Writers |-> ""]
    /\ dirs = {}
    /\ files = <<>>
    /\ touched = [w \in Writers |-> {}]
    /\ pre_dest = [w \in Writers |-> NoDest]
    /\ last_insert = [w \in Writers |-> NoInsert]
    /\ last_done = 0

uuid4 == SinkIdNames[Cardinality(Constructed) + 1]

\* DuckPondSink.__init__: a fresh uuid4 names the sink and its tmp dir; the
\* connector is built for the file below it. Nothing is created on disk.
\* Sinks are numbered in the order they are built.
Construct(w) ==
    /\ pc[w] = "new"
    /\ \A v \in Writers : v < w => pc[v] # "new"
    /\ \E m \in StreamMessages :
          /\ schema_name' = [schema_name EXCEPT ![w] = m.schema_name]
          /\ stream_name' = [stream_name EXCEPT ![w] = m.stream_name]
          /\ stream_def' = [stream_def EXCEPT ![w] = m.def]
          /\ sink_id' = [sink_id EXCEPT ![w] = uuid4]
    /\ pc' = [pc EXCEPT ![w] = "constructed"]
    /\ UNCHANGED <<dirs, files, touched, pre_dest, last_insert, last_done>>

\* setup without the mkdir of the final output dir.
mkdir_raw_dir_skipped(w) == dirs

\* setup, the two mkdir(parents=True, exist_ok=True) statements.
mkdir_raw_dir(w) == dirs \cup Parents(sink_raw_dir(w))
mkdir_tmp_dir(w, ds) == ds \cup Parents(sink_tmp_dir(w))

\* setup: both mkdirs, then super().setup(), which prepares the table through
\* the connector. A table already in the database is kept; otherwise
\* create_empty_table runs. Whether the database file is on disk when
\* create_empty_table raises, and whether the engine accepts a table with no
\* columns, is the engine's business: both outcomes are kept.
Setup(w) ==
    /\ pc[w] = "constructed"
    /\ dirs' = mkdir_tmp_dir(w, mkdir_raw_dir(w))
    /\ touched' = [touched EXCEPT ![w] = @ \cup {sink_tmp_dir(w), connector_path(w)}]
    /\ LET f == connector_path(w)
           res == create_empty_table(stream_def[w])
           put(t) == [g \in DOMAIN files \cup {f} |-> IF g = f THEN t ELSE files[g]]
       IN  IF f \in DOMAIN files /\ files[f].created
           THEN /\ files' = files
                /\ pc' = [pc EXCEPT ![w] = "ready"]
           ELSE IF res.raised # "none"
           THEN /\ files' \in {files, put(NoTable)}
                /\ pc' = [pc EXCEPT ![w] = "schema_error"]
           ELSE IF Len(res.columns) = 0
           THEN \E accepted \in BOOLEAN :
                  /\ files' = put([created |-> accepted, columns |-> <<>>, rows |-> {}])
                  /\ pc' = [pc EXCEPT ![w] = IF accepted THEN "ready" ELSE "engine_error"]
           ELSE /\ files' = put([created |-> TRUE, columns |-> res.columns, rows |-> {}])
                /\ pc' = [pc EXCEPT ![w] = "ready"]
    /\ UNCHANGED <<stream_name, schema_name, stream_def, sink_id,
                   pre_dest, last_insert, last_done>>

\* One record written with the statement of generate_insert_statement.
Insert(w) ==
    /\ pc[w] = "ready"
    /\ LET f == connector_path(w)
           table == files[f]
           stmt == generate_insert_statement(stream_def[w])
       IN  \E r \in Records(stream_def[w]), null_bound \in BOOLEAN :
             LET out == execute_insert(table, stmt, r, null_bound)
                 row == [n \in DOMAIN r \cap ParamSet(stmt) |-> r[n]]
             IN  /\ last_insert' = [last_insert EXCEPT ![w] =
                       [done |-> TRUE, stored |-> out = "stored",
                        missing |-> ParamSet(stmt) \ DOMAIN r]]
                 /\ IF out = "stored"
                    THEN /\ files' = [files EXCEPT ![f].rows = @ \cup {row}]
                         /\ pc' = pc
                    ELSE /\ files' = files
                         /\ pc' = [pc EXCEPT ![w] = "write_error"]
    /\ touched' = [touched EXCEPT ![w] = @ \cup {connector_path(w)}]
    /\ UNCHANGED <<stream_name, schema_name, stream_def, sink_id, dirs,
                   pre_dest, last_done>>

\* clean_up, first statement: super().clean_up(), which only logs.
CleanUpEnter(w) ==
    /\ pc[w] = "ready"
    /\ pc' = [pc EXCEPT ![w] = "clean_up"]
    /\ pre_dest' = [pre_dest EXCEPT ![w] = DestState(sink_raw_dir(w))]
    /\ UNCHANGED <<stream_name, schema_name, stream_def, sink_id, dirs, files,
                   touched, last_insert, last_done>>

\* clean_up, the rest: six comments (lock, merge, delete destination dir, move
\* tmp dir, delete working database, release lock) and `return None`. No
\* statement touches the filesystem.
\* clean_up carrying out "delete destination dir" and nothing after it.
clean_up_dirs_deleting(w) == dirs \ {sink_raw_dir(w)}

clean_up_dirs(w) == dirs
clean_up_files(w) == files

CleanUpReturn(w) ==
    /\ pc[w] = "clean_up"
    /\ dirs' = clean_up_dirs(w)
    /\ files' = clean_up_files(w)
    /\ last_done' = w
    /\ pc' = [pc EXCEPT ![w] = "done"]
    /\ UNCHANGED <<stream_name, schema_name, stream_def, sink_id, touched,
                   pre_dest, last_insert>>

\* The process is killed while the sink is inside clean_up.
Interrupt(w) ==
    /\ pc[w] = "clean_up"
    /\ pc' = [pc EXCEPT ![w] = "interrupted"]
    /\ UNCHANGED <<stream_name, schema_name, stream_def, sink_id, dirs, files,
                   touched, pre_dest, last_insert, last_done>>

Next ==
    \E w \in Writers :
        \/ Construct(w)
        \/ Setup(w)
        \/ Insert(w)
        \/ CleanUpEnter(w)
        \/ CleanUpReturn(w)
        \/ Interrupt(w)

Spec == Init /\ [][Next]_vars

----------------------------------------------------------------------------
(* Properties *)

Staged(w) ==
    IF connector_path(w) \in DOMAIN files THEN files[connector_path(w)].rows ELSE {}
SameDestination(v, w) ==
    /\ v # w /\ pc[v] # "new" /\ pc[w] # "new"
    /\ sink_raw_dir(v) = sink_raw_dir(w)
SetUp(w) == pc[w] \notin {"new", "constructed"}
TableCreated(w) ==
    connector_path(w) \in DOMAIN files /\ files[connector_path(w)].created
IntegerKeys(w) ==
    {stream_def[w].properties[i].name : i \in
       {j \in 1..Len(stream_def[w].properties) :
          /\ stream_def[w].properties[j].name \in stream_def[w].key_properties
          /\ stream_def[w].properties[j].type = "integer"}}

\* C1: two sinks with the same destination are never both inside the part of
\* clean_up that is to merge into the destination.
C1_MergingExclusive ==
    \A v, w \in Writers :
        SameDestination(v, w) => ~(pc[v] = "clean_up" /\ pc[w] = "clean_up")

C4_CommitPublishesRows ==
    \A w \in Writers :
        /\ pc[w] = "done"
        /\ Len(stream_def[w].properties) >= 1
        /\ ~\E v \in Writers : SameDestination(v, w)
        => DestRows(sink_raw_dir(w)) = Staged(w)

\* C5: when two sinks of one destination have both finished clean_up, every
\* key staged by both is held by the destination in exactly one row, the row
\* of the sink that finished last.
C5_LastWriterWins ==
    \A v, w \in Writers :
        /\ SameDestination(v, w)
        /\ pc[v] = "done" /\ pc[w] = "done" /\ last_done = w
        /\ TableCreated(v) /\ TableCreated(w)
        => \A r \in Staged(w) :
             (\E q \in Staged(v) :
                 KeyOf(files[connector_path(w)], q) = KeyOf(files[connector_path(w)], r))
             => {x \in DestRows(sink_raw_dir(w)) :
                   KeyOf(files[connector_path(w)], x) = KeyOf(files[connector_path(w)], r)}
                = {r}

\* C6 as stated: when setup fails on a schema without "properties", neither
\* the tmp dir, nor the database file, nor the destination dir exists.
C6_NothingCreatedOnSchemaError ==
    \A w \in Writers :
        pc[w] = "schema_error" =>
            /\ sink_tmp_dir(w) \notin dirs
            /\ connector_path(w) \notin DOMAIN files
            /\ sink_raw_dir(w) \notin dirs

\* C6 amended: setup of a schema without "properties" ends in the schema error
\* and no table is created, but the destination dir and the tmp dir both exist
\* by then.
C6_SchemaErrorAfterMkdir ==
    \A w \in Writers :
        /\ (SetUp(w) /\ ~stream_def[w].has_properties) <=> pc[w] = "schema_error"
        /\ pc[w] = "schema_error" =>
            /\ ~TableCreated(w)
            /\ sink_tmp_dir(w) \in dirs
            /\ sink_raw_dir(w) \in dirs

\* C6 witness: a sink stopped by the schema error, its directories on disk.
C6_Witness ==
    \E w \in Writers :
        /\ pc[w] = "schema_error"
        /\ {sink_tmp_dir(w), sink_raw_dir(w)} \subseteq dirs

\* C7 as stated: integer primary keys, and only they, have the sequence
\* default, and an insert of a record without a value for such a key is stored.
C7_MissingKeyTakesDefault ==
    \A w \in Writers :
        /\ TableCreated(w) =>
             \A i \in 1..Len(files[connector_path(w)].columns) :
                 LET c == files[connector_path(w)].columns[i]
                 IN  c.server_default = "nextval" <=> c.name \in IntegerKeys(w)
        /\ (last_insert[w].done /\ last_insert[w].missing \cap IntegerKeys(w) # {})
             => last_insert[w].stored

\* C7 amended: integer primary keys, and only they, have the sequence default;
\* the insert statement binds every property of the schema, so an insert of a
\* record without a value for a primary key is never stored and every stored
\* row carries the key values its record gave.
C7_SequenceDefaultNeverTaken ==
    \A w \in Writers :
        /\ TableCreated(w) =>
             /\ \A i \in 1..Len(files[connector_path(w)].columns) :
                    LET c == files[connector_path(w)].columns[i]
                    IN  c.server_default = "nextval" <=> c.name \in IntegerKeys(w)
             /\ \A r \in Staged(w) : stream_def[w].key_properties \subseteq DOMAIN r
        /\ ParamSet(generate_insert_statement(stream_def[w]))
             = {stream_def[w].properties[i].name : i \in 1..Len(stream_def[w].properties)}
        /\ (last_insert[w].done /\ last_insert[w].missing \cap stream_def[w].key_properties # {})
             => ~last_insert[w].stored

\* C7 witness: a record without its integer key was inserted into a table whose
\* key column has the sequence default, after a record with a key was stored.
C7_Witness ==
    \E w \in Writers :
        /\ TableCreated(w) /\ IntegerKeys(w) # {}
        /\ files[connector_path(w)].columns[1].server_default = "nextval"
        /\ Staged(w) # {}
        /\ last_insert[w].done /\ last_insert[w].missing = IntegerKeys(w)

\* C8: every sink has its own sink_id; its tmp dir is tmp/<sink_id> and its
\* database file lies in it; two sinks never have the same tmp dir or file, and
\* every path below tmp/ a sink has accessed lies in its own tmp dir.
C8_StagingNeverShared ==
    \A w \in Writers : pc[w] # "new" =>
        /\ sink_tmp_dir(w) = <<"tmp", sink_id[w]>>
        /\ Dirname(connector_path(w)) = sink_tmp_dir(w)
        /\ \A p \in touched[w] : p = sink_tmp_dir(w) \/ Dirname(p) = sink_tmp_dir(w)
        /\ \A v \in Writers \ {w} : pc[v] # "new" =>
             /\ sink_id[v] # sink_id[w]
             /\ sink_tmp_dir(v) # sink_tmp_dir(w)
             /\ connector_path(v) # connector_path(w)
             /\ touched[v] \cap {sink_tmp_dir(w), connector_path(w)} = {}

\* C8 witness: two sinks of the same stream name, both with staged rows.
C8_Witness ==
    \E v, w \in Writers :
        /\ v # w /\ stream_name[v] = stream_name[w]
        /\ pc[v] = "done" /\ pc[w] = "ready"
        /\ Staged(v) # {} /\ Staged(w) # {}

\* C9: once clean_up has returned, the sink's tmp dir and its database file
\* are gone.
C9_StagingDeletedWhenDone ==
    \A w \in Writers :
        pc[w] = "done" =>
            /\ sink_tmp_dir(w) \notin dirs
            /\ connector_path(w) \notin DOMAIN files

\* C10: setup of a schema that defines no field, whether "properties" is
\* missing or empty, ends in the schema error with no table created.
C10_EmptySchemaRejected ==
    \A w \in Writers :
        (SetUp(w) /\ Len(stream_def[w].properties) = 0) =>
            /\ pc[w] = "schema_error"
            /\ ~TableCreated(w)

====
